---------------------------- MODULE Spec2Model ----------------------------
(***************************************************************************)
(* State-machine model of the reader session controller (class Reader):    *)
(* settings merge / restore / persist, location tracking, keyboard input.  *)
(***************************************************************************)
EXTENDS Integers, Sequences, FiniteSets, TLC

(***************************************************************************)
(* JavaScript values.  A value is a record [t, s, o]: its type tag, its    *)
(* scalar payload (the text of a string, "true"/"false" of a boolean) and, *)
(* for an object, its properties.  An absent property and a property whose *)
(* value is undefined read the same (obj[prop] === void 0), so an object   *)
(* is a total function from property names to values.                      *)
(***************************************************************************)
StyleKeys == {"fontSize", "fontFamily"}

SUndef == [t |-> "undefined", s |-> ""]
SStr(x) == [t |-> "string", s |-> x]

NoProps == [k \in StyleKeys |-> SUndef]

Undef == [t |-> "undefined", s |-> "", o |-> NoProps]
Null == [t |-> "null", s |-> "", o |-> NoProps]
Bool(b) == [t |-> "boolean", s |-> IF b THEN "true" ELSE "false", o |-> NoProps]
Str(x) == [t |-> "string", s |-> x, o |-> NoProps]
Arr == [t |-> "array", s |-> "", o |-> NoProps]
Obj(props) == [t |-> "object", s |-> "", o |-> props]

\* ToBoolean: undefined, null, false and '' are falsy; objects and arrays are truthy.
Truthy(v) ==
    /\ v.t \notin {"undefined", "null"}
    /\ ~(v.t = "boolean" /\ v.s = "false")
    /\ ~(v.t = "string" /\ v.s = "")

RECURSIVE SetToSeq(_)
SetToSeq(S) ==
    IF S = {} THEN <<>>
    ELSE LET x == CHOOSE y \in S : TRUE IN <<x>> \o SetToSeq(S \ {x})

\* for (let prop in source): the properties of source, in enumeration order
Props(source) == SetToSeq(DOMAIN source)

\* mutant of defaultsProps: assigns whenever the target's value is falsy
RECURSIVE defaultsPropsFalsy(_, _, _)
defaultsPropsFalsy(obj, source, props) ==
    IF props = <<>> THEN obj
    ELSE LET prop == Head(props) IN
         defaultsPropsFalsy(
             IF ~Truthy(obj[prop])
                 THEN [obj EXCEPT ![prop] = source[prop]]
                 ELSE obj,
             source, Tail(props))

\* mutant of defaultsProps: the loop is left after the first property it fills
RECURSIVE defaultsPropsBreak(_, _, _)
defaultsPropsBreak(obj, source, props) ==
    IF props = <<>> THEN obj
    ELSE LET prop == Head(props) IN
         IF obj[prop].t = "undefined" /\ source[prop].t # "undefined"
             THEN [obj EXCEPT ![prop] = source[prop]]
             ELSE defaultsPropsBreak(obj, source, Tail(props))

\* the inner loop of defaults: if (obj[prop] === void 0) obj[prop] = source[prop]
RECURSIVE defaultsProps(_, _, _)
defaultsProps(obj, source, props) ==
    IF props = <<>> THEN obj
    ELSE LET prop == Head(props) IN
         defaultsProps(
             IF obj[prop].t = "undefined"
                 THEN [obj EXCEPT ![prop] = source[prop]]
                 ELSE obj,
             source, Tail(props))

\* defaults(obj, ...sources): the outer loop over arguments[1..]
RECURSIVE defaults(_, _)
defaults(obj, sources) ==
    IF sources = <<>> THEN obj
    ELSE defaults(defaultsProps(obj, Head(sources), Props(Head(sources))),
                  Tail(sources))

(***************************************************************************)
(* Settings: the object built by init().  Fields are the names of the      *)
(* built-in defaults plus previousLocationCfi, which saveSettings adds.    *)
(***************************************************************************)
Fields == {"bookPath", "restore", "reload", "bookmarks", "annotations",
           "contained", "bookKey", "styles", "reflowText", "pagination",
           "history", "language", "previousLocationCfi"}

\* {} : an object with no property set
EmptyObject == [f \in Fields |-> Undef]

\* the second argument of defaults() in init
BuiltIn(bookPath) ==
    [f \in Fields |->
        CASE f = "bookPath" -> Str(bookPath)
          [] f \in {"restore", "reload", "reflowText", "pagination"} -> Bool(FALSE)
          [] f = "history" -> Bool(TRUE)
          [] f = "language" -> Str("en")
          [] OTHER -> Undef]

\* book locations the readers are constructed with, and positions (CFIs) in a book
BookPaths == {"a.epub", "b.epub"}
Cfis == {"epubcfi(/6/2)", "epubcfi(/6/4)"}

\* the CFI range of a text selection
CfiRanges == {"epubcfi(/6/4!/4/2,/1:0,/1:5)"}

\* decodeURIComponent on the query values used: %2E is '.', %2F is '/'
decodeURIComponent(value) ==
    CASE value = "b%2Eepub" -> "b.epub"
      [] value = "epubcfi(%2F6%2F4)" -> "epubcfi(/6/4)"
      [] OTHER -> value

\* md5(identifier), as hex digest; BookPaths are the only identifiers hashed
\* (OTHER is the digest of the empty string)
md5(identifier) ==
    CASE identifier = "a.epub" -> "9dfc337f1a617497b7eb85edb021d4a3"
      [] identifier = "b.epub" -> "3c3f14d252de7eb9a813052c43f5cd62"
      [] OTHER -> "d41d8cd98f00b204e9800998ecf8427e"

\* mutant of applyParameters: a query pair fills only a field that is undefined
RECURSIVE applyParametersKeep(_, _)
applyParametersKeep(settings, parameters) ==
    IF parameters = <<>> THEN settings
    ELSE LET split == Head(parameters)
             name == split[1]
             value == IF Len(split) >= 2 THEN split[2] ELSE ""
         IN applyParametersKeep(
                IF settings[name].t = "undefined"
                    THEN [settings EXCEPT ![name] = Str(decodeURIComponent(value))]
                    ELSE settings,
                Tail(parameters))

\* this.parameters.forEach: each p is p.split('='); name = split[0],
\* value = split[1] || '', settings[name] = decodeURIComponent(value)
RECURSIVE applyParameters(_, _)
applyParameters(settings, parameters) ==
    IF parameters = <<>> THEN settings
    ELSE LET split == Head(parameters)
             name == split[1]
             value == IF Len(split) >= 2 THEN split[2] ELSE ""
         IN applyParameters(
                [settings EXCEPT ![name] = Str(decodeURIComponent(value))],
                Tail(parameters))

\* mutant of setBookKey: recomputes the key whatever the settings hold
setBookKeyAlways(settings, identifier) ==
    [settings EXCEPT !.bookKey = Str("epubjs-reader:" \o md5(identifier.s))]

\* setBookKey(identifier): sets settings.bookKey only when it is undefined
setBookKey(settings, identifier) ==
    IF settings.bookKey.t = "undefined"
        THEN [settings EXCEPT !.bookKey = Str("epubjs-reader:" \o md5(identifier.s))]
        ELSE settings

(***************************************************************************)
(* localStorage: items are texts.  A text is either the JSON of a settings *)
(* object or text that JSON.parse rejects; getItem of a missing key is     *)
(* null.                                                                   *)
(***************************************************************************)
NullItem == [kind |-> "null", rec |-> EmptyObject]
Garbage == [kind |-> "garbage", rec |-> EmptyObject]

\* JSON.stringify of one value: a property whose value is undefined is left out
JSONvalue(v) ==
    IF v.t = "object"
        THEN Obj([k \in StyleKeys |-> IF v.o[k].t = "undefined" THEN SUndef ELSE v.o[k]])
        ELSE v

JSONstringify(settings) ==
    [kind |-> "json", rec |-> [f \in Fields |-> JSONvalue(settings[f])]]

\* JSON.parse(text): throws a SyntaxError on text that is not JSON
JSONparse(text) ==
    IF text.kind = "json"
        THEN [threw |-> FALSE, value |-> text.rec]
        ELSE [threw |-> TRUE, value |-> EmptyObject]

\* isSaved(): false without a backend, else whether getItem(bookKey) !== null
isSaved(settings, hasStorage, items) ==
    IF ~hasStorage THEN FALSE
    ELSE items[settings.bookKey.s] # NullItem

\* mutant of applySavedSettings: the stored record overwrites the session's values
applySavedSettingsOverwrite(settings, hasStorage, items, hasException) ==
    LET parsed == JSONparse(items[settings.bookKey.s]) IN
    IF ~hasStorage \/ parsed.threw
        THEN [settings |-> settings, threw |-> FALSE, ret |-> FALSE]
        ELSE [settings |-> defaults(parsed.value, <<settings>>),
              threw |-> FALSE, ret |-> TRUE]

\* applySavedSettings(): parse the record under bookKey; on a parse error the
\* catch block calls console.exception, which throws a TypeError where the
\* console has no such method; else merge stored.styles, then the rest
applySavedSettings(settings, hasStorage, items, hasException) ==
    IF ~hasStorage THEN [settings |-> settings, threw |-> FALSE, ret |-> FALSE]
    ELSE
    LET parsed == JSONparse(items[settings.bookKey.s])
        stored == parsed.value
        styles == IF Truthy(stored.styles)
                      THEN Obj(defaults(IF Truthy(settings.styles)
                                            THEN settings.styles.o
                                            ELSE NoProps,
                                        <<stored.styles.o>>))
                      ELSE settings.styles
    IN
    IF parsed.threw
        THEN [settings |-> settings, threw |-> ~hasException, ret |-> FALSE]
        ELSE [settings |-> defaults([settings EXCEPT !.styles = styles], <<stored>>),
              threw |-> FALSE, ret |-> TRUE]

(***************************************************************************)
(* init(bookPath, _options): the settings it builds, whether it threw, and *)
(* the initial display request.                                            *)
(***************************************************************************)
DefaultPosition == "(default)"

\* lines 55-80: defaults over the caller's options, the query pairs, the book key
initMerged(bookPath, options, query) ==
    LET merged == defaults(options, <<BuiltIn(bookPath)>>)
        queried == IF query # <<>> THEN applyParameters(merged, query) ELSE merged
    IN setBookKey(queried, queried.bookPath)

\* lines 86-94: bookmarks, annotations and styles when still unset
initFilled(settings) ==
    LET b == IF settings.bookmarks.t = "undefined"
                 THEN [settings EXCEPT !.bookmarks = Arr] ELSE settings
        a == IF b.annotations.t = "undefined"
                 THEN [b EXCEPT !.annotations = Arr] ELSE b
    IN IF Truthy(a.styles) THEN a
       ELSE [a EXCEPT !.styles = Obj([NoProps EXCEPT !.fontSize = SStr("100%")])]

\* mutant of initialDisplay: always display()
initialDisplayDefault(settings) == DefaultPosition

\* lines 104-109: display(cfi) when previousLocationCfi is truthy, else display()
initialDisplay(settings) ==
    IF Truthy(settings.previousLocationCfi)
        THEN settings.previousLocationCfi.s
        ELSE DefaultPosition

init(bookPath, options, query, hasStorage, items, hasException) ==
    LET merged == initMerged(bookPath, options, query)
        saved == Truthy(merged.restore) /\ isSaved(merged, hasStorage, items)
        applied == IF saved
                       THEN applySavedSettings(merged, hasStorage, items, hasException)
                       ELSE [settings |-> merged, threw |-> FALSE, ret |-> FALSE]
        filled == initFilled(applied.settings)
    IN IF applied.threw
           THEN [threw |-> TRUE, settings |-> applied.settings,
                 displayed |-> DefaultPosition]
           ELSE [threw |-> FALSE, settings |-> filled,
                 displayed |-> initialDisplay(filled)]

\* mutant of saveSettings: checks the backend before it captures the location
saveSettingsGuarded(settings, hasBook, location, hasStorage, items) ==
    LET located == IF hasBook /\ location # "" /\ hasStorage
                       THEN [settings EXCEPT !.previousLocationCfi = Str(location)]
                       ELSE settings
    IN IF ~hasStorage
           THEN [settings |-> located, items |-> items, ret |-> FALSE]
           ELSE [settings |-> located,
                 items |-> [items EXCEPT ![located.bookKey.s] = JSONstringify(located)],
                 ret |-> TRUE]

\* saveSettings(): capture rendition.currentLocation().start.cfi when there is
\* a book and a start, then return false without a backend, else setItem
saveSettings(settings, hasBook, location, hasStorage, items) ==
    LET located == IF hasBook /\ location # ""
                       THEN [settings EXCEPT !.previousLocationCfi = Str(location)]
                       ELSE settings
    IN IF ~hasStorage
           THEN [settings |-> located, items |-> items, ret |-> FALSE]
           ELSE [settings |-> located,
                 items |-> [items EXCEPT ![located.bookKey.s] = JSONstringify(located)],
                 ret |-> TRUE]

\* mutant of unload: saves whether restore is set or not
unloadAlways(settings, hasBook, location, hasStorage, items) ==
    IF hasStorage
        THEN saveSettings(settings, hasBook, location, hasStorage, items)
        ELSE [settings |-> settings, items |-> items, ret |-> FALSE]

\* unload(): saveSettings() only when settings.restore && localStorage
unload(settings, hasBook, location, hasStorage, items) ==
    IF Truthy(settings.restore) /\ hasStorage
        THEN saveSettings(settings, hasBook, location, hasStorage, items)
        ELSE [settings |-> settings, items |-> items, ret |-> FALSE]

\* removeSavedSettings(): false when nothing is saved, else removeItem
removeSavedSettings(settings, hasStorage, items) ==
    IF ~isSaved(settings, hasStorage, items)
        THEN [items |-> items, ret |-> FALSE]
        ELSE [items |-> [items EXCEPT ![settings.bookKey.s] = NullItem], ret |-> TRUE]

(***************************************************************************)
(* Location tracker and input handler.                                     *)
(***************************************************************************)
Fragments == {"#" \o c : c \in Cfis}

\* window.location.hash once pushState({}, '', cfiFragment) has run: the
\* fragment of the new URL, "" when it is empty.  The CFIs used hold no
\* character that URL serialisation escapes.
hashAfterPush(cfiFragment) == IF cfiFragment = "#" THEN "" ELSE cfiFragment

\* window.location.hash.slice(1)
sliceHash(h) ==
    IF h = "" THEN "" ELSE CHOOSE c \in Cfis \cup CfiRanges : "#" \o c = h

\* mutant of setLocation: pushes without comparing the fragment
setLocationNoCompare(settings, hash, cfi) ==
    LET cfiFragment == "#" \o cfi IN
    IF Truthy(settings.history)
        THEN [current |-> cfi, hash |-> hashAfterPush(cfiFragment), pushed |-> 1]
        ELSE [current |-> cfi, hash |-> hash, pushed |-> 0]

\* setLocation(cfi): record cfi; pushState when settings.history is truthy and
\* window.location.hash !== "#" + cfi
setLocation(settings, hash, cfi) ==
    LET cfiFragment == "#" \o cfi IN
    IF Truthy(settings.history) /\ hash # cfiFragment
        THEN [current |-> cfi, hash |-> hashAfterPush(cfiFragment), pushed |-> 1]
        ELSE [current |-> cfi, hash |-> hash, pushed |-> 0]

\* what a handler of a rendition event has done so far: the position it
\* recorded, the page's fragment, the history entries it pushed, the signals
\* it dispatched
Handling(current, hash) ==
    [current |-> current, hash |-> hash, pushed |-> 0, effects |-> <<>>]

\* this.setLocation(cfi) inside a handler
located(h, settings, cfi) ==
    LET r == setLocation(settings, h.hash, cfi) IN
    [h EXCEPT !.current = r.current, !.hash = r.hash, !.pushed = @ + r.pushed]

\* this.signals[name].dispatch(arg): subscribers run now, and read
\* currentLocationCfi as it is at this moment
dispatch(h, name, arg) ==
    [h EXCEPT !.effects = Append(@, [op |-> name, arg |-> arg, seen |-> h.current])]

\* mutant of onRelocated: dispatches the signal before it calls setLocation
onRelocatedDispatchFirst(h, settings, cfi) ==
    located(dispatch(h, "relocated", cfi), settings, cfi)

\* rendition.on('relocated'): setLocation(location.start.cfi), then dispatch
onRelocated(h, settings, cfi) ==
    dispatch(located(h, settings, cfi), "relocated", cfi)

\* rendition.on('selected'): setLocation(cfiRange), then dispatch
onSelected(h, settings, cfiRange) ==
    dispatch(located(h, settings, cfiRange), "selected", cfiRange)

\* hashChanged(): rendition.display(window.location.hash.slice(1))
hashChanged(hash) == <<[cmd |-> "display", arg |-> sliceHash(hash)]>>

\* font sizes the model follows: 100% and FontSteps steps of interval either way
FontSteps == 1
interval == 2
FontSizes == (100 - interval * FontSteps) .. (100 + interval * FontSteps)

\* fontSize + "%"
percent(n) == ToString(n) \o "%"

\* parseInt(fontSize.slice(0, -1)) of an integer percentage
parsePercent(text) == CHOOSE n \in FontSizes : percent(n) = text

Keys == {"ArrowLeft", "ArrowRight", "=", "-", "0"}

\* mutant of fontKeys: the '0' case sends "100%" to the theme but does not
\* reset fontSize
fontKeysNoReset(styles, key) ==
    LET withSize == IF styles.o.fontSize.t = "undefined"
                        THEN [styles EXCEPT !.o.fontSize = SStr("100%")]
                        ELSE styles
        fontSize == parsePercent(withSize.o.fontSize.s)
        resized == CASE key = "=" -> fontSize + interval
                     [] key = "-" -> fontSize - interval
                     [] OTHER -> fontSize
    IN [styles |-> [withSize EXCEPT !.o.fontSize = SStr(percent(resized))],
        commands |-> CASE key \in {"=", "-"} ->
                             <<[cmd |-> "themes.fontSize", arg |-> percent(resized)]>>
                       [] key = "0" ->
                             <<[cmd |-> "themes.fontSize", arg |-> "100%"]>>
                       [] OTHER -> <<>>]

\* lines 322-354 of arrowKeys, taken when ctrlKey || metaKey, styles defined:
\* the new styles and the theme command
fontKeys(styles, key) ==
    LET withSize == IF styles.o.fontSize.t = "undefined"
                        THEN [styles EXCEPT !.o.fontSize = SStr("100%")]
                        ELSE styles
        fontSize == parsePercent(withSize.o.fontSize.s)
        resized == CASE key = "=" -> fontSize + interval
                     [] key = "-" -> fontSize - interval
                     [] key = "0" -> 100
                     [] OTHER -> fontSize
    IN [styles |-> [withSize EXCEPT !.o.fontSize = SStr(percent(resized))],
        commands |-> IF key \in {"=", "-", "0"}
                         THEN <<[cmd |-> "themes.fontSize", arg |-> percent(resized)]>>
                         ELSE <<>>]

\* mutant of turnKeys: the direction of the book is not consulted
turnKeysNoInvert(direction, key) ==
    CASE key = "ArrowLeft" -> <<[cmd |-> "prev", arg |-> ""]>>
      [] key = "ArrowRight" -> <<[cmd |-> "next", arg |-> ""]>>
      [] OTHER -> <<>>

\* lines 356-389 of arrowKeys: the page turn an arrow key dispatches
turnKeys(direction, key) ==
    CASE key = "ArrowLeft" ->
            <<[cmd |-> IF direction = "rtl" THEN "next" ELSE "prev", arg |-> ""]>>
      [] key = "ArrowRight" ->
            <<[cmd |-> IF direction = "rtl" THEN "prev" ELSE "next", arg |-> ""]>>
      [] OTHER -> <<>>

\* lines 364 and 380: the control an arrow key gives the class 'active'
activated(key) == IF key = "ArrowLeft" THEN "prev" ELSE "next"

\* mutant of released: both timers remove the class from content.prev
releasedPrev(key) == "prev"

\* lines 369 and 385: the control the key's timer callback takes the class from
released(key) == IF key = "ArrowLeft" THEN "prev" ELSE "next"

\* arrowKeys(e): the font keys when a modifier is held (returning at once when
\* styles is undefined), then the arrow switch, which runs in either case
arrowKeys(styles, direction, key, mod) ==
    IF mod /\ styles.t = "undefined" THEN [styles |-> styles, commands |-> <<>>]
    ELSE LET font == IF mod THEN fontKeys(styles, key)
                     ELSE [styles |-> styles, commands |-> <<>>]
         IN [styles |-> font.styles,
             commands |-> font.commands \o turnKeys(direction, key)]

\* ePubReader(bookPath, options), the factory the upload path calls: it
\* constructs a new Reader
ePubReader(bookPath, options, query, hasStorage, items, hasException) ==
    init(bookPath, options, query, hasStorage, items, hasException)

\* the listeners a replaced session registered (lines 43-45) are never removed:
\* they run, before the newest session's, on every keydown, hashchange and
\* beforeunload.  The class changes and timers of a replaced session go to
\* its own Content and are not followed.
keydownReplaced(s, key, mod) ==
    LET r == arrowKeys(s.settings.styles, s.direction, key, mod) IN
    [s EXCEPT !.settings.styles = r.styles, !.commands = r.commands]

hashchangeReplaced(s, h) == [s EXCEPT !.commands = hashChanged(h)]

\* the items once the beforeunload listeners of the first n replaced sessions ran
RECURSIVE unloadReplaced(_, _, _, _)
unloadReplaced(sessions, n, hasStorage, items) ==
    IF n = 0 THEN items
    ELSE unload(sessions[n].settings, TRUE, sessions[n].location, hasStorage,
                unloadReplaced(sessions, n - 1, hasStorage, items)).items

\* an event that no listener of the replaced sessions hears
Quiet(sessions) == [i \in DOMAIN sessions |-> [sessions[i] EXCEPT !.commands = <<>>]]

(***************************************************************************)
(* State.                                                                  *)
(***************************************************************************)
VARIABLES
    hasStorage,          \* whether localStorage is usable (truthy)
    items,               \* localStorage: key -> text
    status,              \* "closed": no page; "live": a Reader; "threw": its constructor threw
    search,              \* window.location.search, as the parameters it splits into
    hash,                \* window.location.hash
    args,                \* the constructor's arguments
    settings,            \* this.settings
    currentLocationCfi,  \* this.currentLocationCfi ("" while unset)
    displayed,           \* the position of the initial display request
    location,            \* rendition.currentLocation().start.cfi ("" while it has no start)
    direction,           \* book.package.metadata.direction
    keylock,             \* this.keylock
    active,              \* which of content.prev / content.next carry class 'active'
    timers,              \* pending setTimeout callbacks, in firing order
    commands,            \* what the last handler sent to the rendition
    pushed,              \* how many entries the last handler pushed onto window.history
    effects,             \* the signals the last handler dispatched and the class changes
                         \* it made on content.prev / content.next, in order
    returned,            \* the last direct call of a method, and what it returned
    lastUnload,          \* the last unload, when restore was on and the rendition had a position
    replaced,            \* the sessions of this page that the upload path replaced, each
                         \* with what its listeners sent to its rendition in the last event
    call                 \* a call of defaults() on its own: phase, target, source, result

vars == <<hasStorage, items, status, search, hash, args, settings,
          currentLocationCfi, displayed, location, direction, keylock, active,
          timers, commands, pushed, effects, returned, lastUnload, replaced, call>>

MaxTimers == 2

\* how many sessions the upload path replaces on one page
MaxUploads == 1

CustomKey == "mykey"
StorageKeys == {"epubjs-reader:" \o md5(p) : p \in BookPaths} \cup {CustomKey}

\* the keys that may hold unparseable text when the first page opens
GarbageKeys == {{}, {"epubjs-reader:" \o md5("a.epub")}}

\* the options of the upload controller: {restore: true}
UploadOptions ==
    [EmptyObject EXCEPT !.restore = Bool(TRUE)]

NoArgs == [bookPath |-> "", options |-> EmptyObject]
NoUnload == [bookPath |-> "", bookKey |-> "", cfi |-> ""]
NoActive == [prev |-> FALSE, next |-> FALSE]
NoReturn == [call |-> "", value |-> FALSE]

\* a call of defaults(target, source) on plain objects with properties a and b
PlainKeys == {"a", "b"}
PlainValues == {[t |-> "undefined", s |-> ""], [t |-> "null", s |-> ""],
                [t |-> "boolean", s |-> "false"], [t |-> "number", s |-> "1"],
                [t |-> "number", s |-> "2"]}
PlainObjects == [PlainKeys -> PlainValues]
NoPlain == [k \in PlainKeys |-> [t |-> "undefined", s |-> ""]]
NoCall == [phase |-> "none", target |-> NoPlain, source |-> NoPlain, result |-> NoPlain]

NoSession ==
    /\ settings' = EmptyObject
    /\ currentLocationCfi' = ""
    /\ displayed' = ""
    /\ location' = ""
    /\ direction' = ""
    /\ keylock' = FALSE
    /\ active' = NoActive
    /\ timers' = <<>>

NoPage ==
    /\ search' = <<>>
    /\ hash' = ""
    /\ args' = NoArgs

Init ==
    /\ hasStorage \in BOOLEAN
    /\ items \in {[k \in StorageKeys |-> IF k \in g THEN Garbage ELSE NullItem] :
                      g \in GarbageKeys}
    /\ status = "closed"
    /\ search = <<>>
    /\ hash = ""
    /\ args = NoArgs
    /\ settings = EmptyObject
    /\ currentLocationCfi = ""
    /\ displayed = ""
    /\ location = ""
    /\ direction = ""
    /\ keylock = FALSE
    /\ active = NoActive
    /\ timers = <<>>
    /\ commands = <<>>
    /\ pushed = 0
    /\ effects = <<>>
    /\ returned = NoReturn
    /\ lastUnload = NoUnload
    /\ replaced = <<>>
    /\ call = NoCall

(***************************************************************************)
(* The page is opened and the constructor runs: new Reader(bookPath,       *)
(* options) with the page's query and fragment.  hasException is whether   *)
(* this browser's console has the non-standard method exception().         *)
(***************************************************************************)
Load(bookPath, options, query, fragment, dir, hasException) ==
    /\ status = "closed"
    /\ LET r == init(bookPath, options, query, hasStorage, items, hasException) IN
       /\ search' = query
       /\ hash' = fragment
       /\ args' = [bookPath |-> bookPath, options |-> options]
       /\ IF r.threw
              THEN /\ status' = "threw"
                   /\ NoSession
                   /\ commands' = <<>>
              ELSE /\ status' = "live"
                   /\ settings' = r.settings
                   /\ currentLocationCfi' = ""
                   /\ displayed' = r.displayed
                   /\ location' = ""
                   /\ direction' = dir
                   /\ keylock' = FALSE
                   /\ active' = NoActive
                   /\ timers' = <<>>
                   /\ commands' = <<[cmd |-> "display", arg |-> r.displayed]>>
       /\ pushed' = 0
       /\ effects' = <<>>
       /\ returned' = NoReturn
    /\ replaced' = <<>>
    /\ UNCHANGED <<hasStorage, items, lastUnload, call>>

\* fileReader.onload of the upload controller: reader = ePubReader(result,
\* {restore: true}) while the page and the listeners of the session it
\* replaces stay; the file is read while no key timer is pending.  Where the
\* constructor throws, the session in place stays the newest.
Upload(bookPath, dir, hasException) ==
    /\ status = "live"
    /\ timers = <<>>
    /\ Len(replaced) < MaxUploads
    /\ LET r == ePubReader(bookPath, UploadOptions, search, hasStorage, items,
                           hasException)
       IN IF r.threw
              THEN /\ commands' = <<>>
                   /\ replaced' = Quiet(replaced)
                   /\ UNCHANGED <<args, settings, currentLocationCfi, displayed,
                                  location, direction, keylock, active>>
              ELSE /\ args' = [bookPath |-> bookPath, options |-> UploadOptions]
                   /\ settings' = r.settings
                   /\ currentLocationCfi' = ""
                   /\ displayed' = r.displayed
                   /\ location' = ""
                   /\ direction' = dir
                   /\ keylock' = FALSE
                   /\ active' = active
                   /\ commands' = <<[cmd |-> "display", arg |-> r.displayed]>>
                   /\ replaced' = Append(Quiet(replaced),
                                         [settings |-> settings, location |-> location,
                                          direction |-> direction, commands |-> <<>>])
    /\ pushed' = 0
    /\ effects' = <<>>
    /\ returned' = NoReturn
    /\ UNCHANGED <<hasStorage, items, status, search, hash, timers, lastUnload, call>>

\* rendition 'relocated': the engine is now at cfi; the handler calls setLocation
Relocated(cfi) ==
    /\ status = "live"
    /\ LET r == onRelocated(Handling(currentLocationCfi, hash), settings, cfi) IN
       /\ location' = cfi
       /\ currentLocationCfi' = r.current
       /\ hash' = r.hash
       /\ pushed' = r.pushed
       /\ effects' = r.effects
       /\ returned' = NoReturn
    /\ commands' = <<>>
    /\ replaced' = Quiet(replaced)
    /\ UNCHANGED <<hasStorage, items, status, search, args, settings, displayed,
                   direction, keylock, active, timers, lastUnload, call>>

\* rendition 'selected': the reader selected the text at cfiRange
Selected(cfiRange) ==
    /\ status = "live"
    /\ LET r == onSelected(Handling(currentLocationCfi, hash), settings, cfiRange) IN
       /\ currentLocationCfi' = r.current
       /\ hash' = r.hash
       /\ pushed' = r.pushed
       /\ effects' = r.effects
       /\ returned' = NoReturn
    /\ commands' = <<>>
    /\ replaced' = Quiet(replaced)
    /\ UNCHANGED <<hasStorage, items, status, search, args, settings, displayed,
                   location, direction, keylock, active, timers, lastUnload, call>>

\* window 'hashchange': the fragment became h; the handler is hashChanged
HashChange(h) ==
    /\ status = "live"
    /\ h # hash
    /\ hash' = h
    /\ commands' = hashChanged(h)
    /\ pushed' = 0
    /\ effects' = <<>>
    /\ returned' = NoReturn
    /\ replaced' = [i \in DOMAIN replaced |-> hashchangeReplaced(replaced[i], h)]
    /\ UNCHANGED <<hasStorage, items, status, search, args, settings,
                   currentLocationCfi, displayed, location, direction, keylock,
                   active, timers, lastUnload, call>>

\* mutant of KeyDown: an arrow key pressed while keylock is set is ignored
KeyDownLocked(key, mod) ==
    /\ status = "live"
    /\ LET arrow == key \in {"ArrowLeft", "ArrowRight"}
           locked == arrow /\ keylock
           r == IF locked THEN [styles |-> settings.styles, commands |-> <<>>]
                ELSE arrowKeys(settings.styles, direction, key, mod)
       IN
       /\ r.styles.o.fontSize.t = "string" =>
              \E n \in FontSizes : percent(n) = r.styles.o.fontSize.s
       /\ (arrow /\ ~locked) => Len(timers) < MaxTimers
       /\ settings' = [settings EXCEPT !.styles = r.styles]
       /\ commands' = r.commands
       /\ keylock' = IF arrow THEN TRUE ELSE keylock
       /\ active' = IF arrow /\ ~locked
                        THEN [active EXCEPT ![activated(key)] = TRUE] ELSE active
       /\ timers' = IF arrow /\ ~locked THEN Append(timers, released(key)) ELSE timers
       /\ effects' = IF arrow /\ ~locked
                         THEN <<[op |-> "addClass", arg |-> activated(key), seen |-> ""]>>
                         ELSE <<>>
       /\ pushed' = 0
       /\ returned' = NoReturn
    /\ \A i \in DOMAIN replaced :
           LET size == keydownReplaced(replaced[i], key, mod).settings.styles.o.fontSize
           IN size.t = "string" => \E n \in FontSizes : percent(n) = size.s
    /\ replaced' = [i \in DOMAIN replaced |-> keydownReplaced(replaced[i], key, mod)]
    /\ UNCHANGED <<hasStorage, items, status, search, hash, args,
                   currentLocationCfi, displayed, location, direction, lastUnload, call>>

\* window 'keydown' with e.key = key and mod = e.ctrlKey || e.metaKey
KeyDown(key, mod) ==
    /\ status = "live"
    /\ LET r == arrowKeys(settings.styles, direction, key, mod)
           arrow == key \in {"ArrowLeft", "ArrowRight"}
       IN
       /\ r.styles.o.fontSize.t = "string" =>
              \E n \in FontSizes : percent(n) = r.styles.o.fontSize.s
       /\ arrow => Len(timers) < MaxTimers
       /\ settings' = [settings EXCEPT !.styles = r.styles]
       /\ commands' = r.commands
       /\ keylock' = IF arrow THEN TRUE ELSE keylock
       /\ active' = IF arrow THEN [active EXCEPT ![activated(key)] = TRUE] ELSE active
       /\ timers' = IF arrow THEN Append(timers, released(key)) ELSE timers
       /\ effects' = IF arrow
                         THEN <<[op |-> "addClass", arg |-> activated(key), seen |-> ""]>>
                         ELSE <<>>
       /\ pushed' = 0
       /\ returned' = NoReturn
    /\ \A i \in DOMAIN replaced :
           LET size == keydownReplaced(replaced[i], key, mod).settings.styles.o.fontSize
           IN size.t = "string" => \E n \in FontSizes : percent(n) = size.s
    /\ replaced' = [i \in DOMAIN replaced |-> keydownReplaced(replaced[i], key, mod)]
    /\ UNCHANGED <<hasStorage, items, status, search, hash, args,
                   currentLocationCfi, displayed, location, direction, lastUnload, call>>

\* a 100ms timer set by arrowKeys fires: keylock = false, removeClass('active')
Timeout ==
    /\ status = "live"
    /\ timers # <<>>
    /\ keylock' = FALSE
    /\ active' = [active EXCEPT ![Head(timers)] = FALSE]
    /\ timers' = Tail(timers)
    /\ effects' = <<[op |-> "removeClass", arg |-> Head(timers), seen |-> ""]>>
    /\ commands' = <<>>
    /\ pushed' = 0
    /\ returned' = NoReturn
    /\ replaced' = Quiet(replaced)
    /\ UNCHANGED <<hasStorage, items, status, search, hash, args,
                   settings, currentLocationCfi, displayed, location, direction,
                   lastUnload, call>>

\* a caller invokes saveSettings()
SaveSettings ==
    /\ status = "live"
    /\ LET r == saveSettings(settings, TRUE, location, hasStorage, items) IN
       /\ settings' = r.settings
       /\ items' = r.items
       /\ pushed' = 0
       /\ effects' = <<>>
       /\ returned' = [call |-> "saveSettings", value |-> r.ret]
    /\ commands' = <<>>
    /\ replaced' = Quiet(replaced)
    /\ UNCHANGED <<hasStorage, status, search, hash, args,
                   currentLocationCfi, displayed, location, direction, keylock,
                   active, timers, lastUnload, call>>

\* a caller invokes removeSavedSettings()
RemoveSavedSettings ==
    /\ status = "live"
    /\ LET r == removeSavedSettings(settings, hasStorage, items) IN
       /\ items' = r.items
       /\ pushed' = 0
       /\ effects' = <<>>
       /\ returned' = [call |-> "removeSavedSettings", value |-> r.ret]
    /\ commands' = <<>>
    /\ replaced' = Quiet(replaced)
    /\ UNCHANGED <<hasStorage, status, search, hash, args, settings,
                   currentLocationCfi, displayed, location, direction, keylock,
                   active, timers, lastUnload, call>>

\* window 'beforeunload': the handler is unload; the page then goes away
Unload ==
    /\ status = "live"
    /\ LET before == unloadReplaced(replaced, Len(replaced), hasStorage, items)
           r == unload(settings, TRUE, location, hasStorage, before)
       IN
       /\ items' = r.items
       /\ pushed' = 0
       /\ effects' = <<>>
       /\ returned' = NoReturn
    /\ lastUnload' = IF Truthy(settings.restore) /\ location # ""
                          THEN [bookPath |-> settings.bookPath.s,
                                bookKey |-> settings.bookKey.s,
                                cfi |-> location]
                          ELSE NoUnload
    /\ status' = "closed"
    /\ NoPage
    /\ NoSession
    /\ commands' = <<>>
    /\ replaced' = <<>>
    /\ UNCHANGED <<hasStorage, call>>

\* the page whose constructor threw is left: no listener was registered
LeaveFailedPage ==
    /\ status = "threw"
    /\ status' = "closed"
    /\ NoPage
    /\ pushed' = 0
    /\ effects' = <<>>
    /\ returned' = NoReturn
    /\ lastUnload' = NoUnload
    /\ commands' = <<>>
    /\ replaced' = Quiet(replaced)
    /\ UNCHANGED <<hasStorage, items, settings, currentLocationCfi, displayed,
                   location, direction, keylock, active, timers, call>>

(***************************************************************************)
(* Inputs.                                                                 *)
(***************************************************************************)
OptionsOf(restore, history, bookKey, styles, cfi) ==
    [EmptyObject EXCEPT !.restore = restore, !.history = history,
                        !.bookKey = bookKey, !.styles = styles,
                        !.previousLocationCfi = cfi]

Serif == Obj([NoProps EXCEPT !.fontFamily = SStr("serif")])
Larger == Obj([NoProps EXCEPT !.fontSize = SStr("102%")])

NoHistory == Bool(FALSE)

\* options of the sessions followed through restore and persist: history is
\* off in all of them; restore on with each styles and previousLocationCfi,
\* restore on under the caller's own bookKey, and restore left off
SettingsOptions ==
    {OptionsOf(Bool(TRUE), NoHistory, Undef, s, c) :
        s \in {Undef, Serif, Larger}, c \in {Undef, Str("epubcfi(/6/2)")}}
    \cup {OptionsOf(Bool(TRUE), NoHistory, Str(CustomKey), Undef, Undef),
          OptionsOf(Undef, NoHistory, Undef, Undef, Undef)}

SettingsQueries == {<<>>, << <<"previousLocationCfi", "epubcfi(%2F6%2F4)">> >>}

\* the constructor's options with the page's query: each of the options with
\* each of the queries, and restore on under a bookKey the query supplies
SettingsInputs ==
    [options : SettingsOptions, query : SettingsQueries]
    \cup {[options |-> OptionsOf(Bool(TRUE), NoHistory, Undef, Undef, Undef),
           query |-> << <<"bookKey", CustomKey>> >>]}

\* options of the sessions whose page events are followed
EventOptions == {OptionsOf(Undef, h, Undef, Undef, Undef) : h \in {Undef, NoHistory}}

EventQueries == {<<>>, << <<"history", "false">> >>}

EventInputs == [options : EventOptions, query : EventQueries]

LoadFrom(bookPaths, inputs, fragments, directions) ==
    \E bookPath \in bookPaths, input \in inputs,
       fragment \in fragments, dir \in directions, hasException \in BOOLEAN :
        Load(bookPath, input.options, input.query, fragment, dir, hasException)

(***************************************************************************)
(* SpecSettings: sessions of one book over successive page loads, with the *)
(* backend present or absent and the record possibly unparseable.          *)
(***************************************************************************)
NextSettings ==
    \/ LoadFrom({"a.epub"}, SettingsInputs, {""}, {"ltr"})
    \/ \E cfi \in Cfis : Relocated(cfi)
    \/ SaveSettings
    \/ RemoveSavedSettings
    \/ Unload
    \/ LeaveFailedPage

SpecSettings == Init /\ [][NextSettings]_vars

(***************************************************************************)
(* Spec: the page events of sessions that start with nothing saved.        *)
(***************************************************************************)
InitEmpty == Init /\ hasStorage /\ \A k \in StorageKeys : items[k] = NullItem

Next ==
    \/ LoadFrom(BookPaths, EventInputs, {"", "#epubcfi(/6/4)"}, {"ltr", "rtl"})
    \/ \E cfi \in Cfis : Relocated(cfi)
    \/ \E h \in Fragments \cup {""} : HashChange(h)
    \/ \E key \in Keys, mod \in BOOLEAN : KeyDown(key, mod)
    \/ Timeout
    \/ Unload

Spec == InitEmpty /\ [][Next]_vars

(***************************************************************************)
(* SpecSignals: the rendition's relocated and selected events, republished *)
(* as the session's signals.                                               *)
(***************************************************************************)
NextSignals ==
    \/ LoadFrom(BookPaths, EventInputs, {"", "#epubcfi(/6/4)"}, {"ltr"})
    \/ \E cfi \in Cfis : Relocated(cfi)
    \/ \E cfiRange \in CfiRanges : Selected(cfiRange)
    \/ \E h \in Fragments \cup {""} : HashChange(h)
    \/ Unload

SpecSignals == InitEmpty /\ [][NextSignals]_vars

(***************************************************************************)
(* SpecKeys: the keydown events and the timers of sessions of books of     *)
(* each reading direction.                                                 *)
(***************************************************************************)
Directions == {"ltr", "rtl", "default"}

NextKeys ==
    \/ LoadFrom({"a.epub"}, EventInputs, {""}, Directions)
    \/ \E key \in Keys, mod \in BOOLEAN : KeyDown(key, mod)
    \/ Timeout
    \/ Unload

SpecKeys == InitEmpty /\ [][NextKeys]_vars

(***************************************************************************)
(* SpecMerge: applySavedSettings() on its own, called on the settings that *)
(* init has built when it reaches the restore (line 82), once and again,   *)
(* over the records that sessions of the book save.                        *)
(***************************************************************************)
\* the records that saveSettings writes at each position
SavedRecords ==
    {JSONstringify([initFilled(initMerged("a.epub", i.options, i.query))
                        EXCEPT !.previousLocationCfi = Str(c)]) :
        i \in SettingsInputs, c \in Cfis}

InitMerge ==
    /\ hasStorage = TRUE
    /\ status = "restoring"
    /\ \E i \in SettingsInputs :
           /\ args = [bookPath |-> "a.epub", options |-> i.options]
           /\ search = i.query
           /\ settings = initMerged("a.epub", i.options, i.query)
    /\ Truthy(settings.restore)
    /\ \E record \in SavedRecords :
           /\ record.rec.bookKey = settings.bookKey
           /\ items = [k \in StorageKeys |->
                          IF k = settings.bookKey.s THEN record ELSE NullItem]
    /\ hash = ""
    /\ currentLocationCfi = ""
    /\ displayed = ""
    /\ location = ""
    /\ direction = ""
    /\ keylock = FALSE
    /\ active = NoActive
    /\ timers = <<>>
    /\ commands = <<>>
    /\ pushed = 0
    /\ effects = <<>>
    /\ returned = NoReturn
    /\ lastUnload = NoUnload
    /\ replaced = <<>>
    /\ call = [NoCall EXCEPT !.phase = "unmerged"]

\* applySavedSettings() is called
ApplySavedSettings ==
    /\ status = "restoring"
    /\ call.phase \in {"unmerged", "once"}
    /\ LET r == applySavedSettings(settings, hasStorage, items, TRUE) IN
       /\ settings' = r.settings
       /\ returned' = [call |-> "applySavedSettings", value |-> r.ret]
    /\ call' = [call EXCEPT !.phase = IF call.phase = "unmerged" THEN "once" ELSE "twice"]
    /\ UNCHANGED <<hasStorage, items, status, search, hash, args,
                   currentLocationCfi, displayed, location, direction, keylock,
                   active, timers, commands, pushed, effects, lastUnload, replaced>>

NextMerge == ApplySavedSettings

SpecMerge == InitMerge /\ [][NextMerge]_vars

(***************************************************************************)
(* SpecUpload: pages on which the upload path replaces the session.        *)
(***************************************************************************)
\* the page opens a.epub with restore on and history off; b.epub is uploaded
UploadInputs ==
    {[options |-> OptionsOf(Bool(TRUE), NoHistory, Undef, Undef, Undef),
      query |-> <<>>]}

NextUpload ==
    \/ LoadFrom({"a.epub"}, UploadInputs, {""}, {"ltr"})
    \/ \E hasException \in BOOLEAN : Upload("b.epub", "rtl", hasException)
    \/ Relocated("epubcfi(/6/2)")
    \/ \E h \in {"", "#epubcfi(/6/4)"} : HashChange(h)
    \/ \E key \in {"ArrowRight", "="}, mod \in BOOLEAN : KeyDown(key, mod)
    \/ Timeout
    \/ Unload

SpecUpload == InitEmpty /\ [][NextUpload]_vars

(***************************************************************************)
(* SpecDefaults: defaults(target, source) on its own, over every pair of   *)
(* plain objects.                                                          *)
(***************************************************************************)
InitDefaults ==
    /\ hasStorage = TRUE
    /\ items = [k \in StorageKeys |-> NullItem]
    /\ status = "closed"
    /\ search = <<>>
    /\ hash = ""
    /\ args = NoArgs
    /\ settings = EmptyObject
    /\ currentLocationCfi = ""
    /\ displayed = ""
    /\ location = ""
    /\ direction = ""
    /\ keylock = FALSE
    /\ active = NoActive
    /\ timers = <<>>
    /\ commands = <<>>
    /\ pushed = 0
    /\ effects = <<>>
    /\ returned = NoReturn
    /\ lastUnload = NoUnload
    /\ replaced = <<>>
    /\ call \in [phase : {"input"}, target : PlainObjects, source : PlainObjects,
                 result : {NoPlain}]

ApplyDefaults ==
    /\ call.phase = "input"
    /\ call' = [call EXCEPT !.phase = "done",
                            !.result = defaults(call.target, <<call.source>>)]
    /\ UNCHANGED <<hasStorage, items, status, search, hash, args, settings,
                   currentLocationCfi, displayed, location, direction, keylock,
                   active, timers, commands, pushed, effects, returned, lastUnload,
                   replaced>>

NextDefaults == ApplyDefaults

SpecDefaults == InitDefaults /\ [][NextDefaults]_vars

(***************************************************************************)
(* Properties of init: query pairs, restore, book key.                     *)
(***************************************************************************)
\* a step in which the constructor ran to its end
Constructed == status = "closed" /\ status' = "live"

\* the settings of the session being constructed as they are just before the
\* restore (line 82)
BeforeRestore == initMerged(args'.bookPath, args'.options, search')

\* C1 (as claimed): during init a query pair name=value never replaces a value
\* the caller supplied in the options for the same name
C1_QueryKeepsOverrides ==
    [][Constructed =>
          \A i \in 1..Len(search') :
              LET name == search'[i][1] IN
              args'.options[name].t # "undefined" =>
                  settings'[name] = args'.options[name]]_vars

\* C1 (amended): during init a query pair name=value sets the field name to the
\* decoded value, whether the field held the built-in default or a value the
\* caller supplied in the options
C1_QueryReplacesOverrides ==
    [][Constructed =>
          \A i \in 1..Len(search') :
              LET name == search'[i][1]
                  value == search'[i][2]
              IN /\ settings'[name].t = "string"
                 /\ settings'[name].s = decodeURIComponent(value)
                 /\ settings'[name].s \in {"epubcfi(/6/4)", CustomKey}]_vars

C1_Witness ==
    /\ status = "live"
    /\ search = << <<"previousLocationCfi", "epubcfi(%2F6%2F4)">> >>
    /\ args.options.previousLocationCfi = Str("epubcfi(/6/2)")
    /\ settings.previousLocationCfi = Str("epubcfi(/6/4)")
    /\ displayed = "epubcfi(/6/4)"

\* C2: when restore is truthy and a parseable record is stored under bookKey,
\* every field defined before the restore keeps its value, every field that is
\* undefined takes the stored value, and likewise property by property inside
\* styles
C2_RestoreFillsOnlyUndefined ==
    [][(/\ Constructed
        /\ Truthy(BeforeRestore.restore)
        /\ hasStorage
        /\ items[BeforeRestore.bookKey.s].kind = "json") =>
          LET pre == BeforeRestore
              stored == items[pre.bookKey.s].rec
          IN /\ \A f \in Fields \ {"styles"} :
                    /\ pre[f].t # "undefined" => settings'[f] = pre[f]
                    /\ (pre[f].t = "undefined" /\ stored[f].t # "undefined") =>
                           settings'[f] = stored[f]
             /\ (pre.styles.t = "undefined" /\ stored.styles.t = "object") =>
                    settings'.styles = stored.styles
             /\ (pre.styles.t = "object" /\ stored.styles.t = "undefined") =>
                    settings'.styles = pre.styles
             /\ (pre.styles.t = "object" /\ stored.styles.t = "object") =>
                    /\ settings'.styles.t = "object"
                    /\ \A k \in StyleKeys :
                           settings'.styles.o[k] =
                               IF pre.styles.o[k].t # "undefined"
                                   THEN pre.styles.o[k]
                                   ELSE stored.styles.o[k]]_vars

C2_Witness ==
    /\ status = "live"
    /\ location = ""
    /\ args.options.styles = Serif
    /\ args.options.previousLocationCfi = Str("epubcfi(/6/2)")
    /\ items[settings.bookKey.s].kind = "json"
    /\ items[settings.bookKey.s].rec.styles = Larger
    /\ items[settings.bookKey.s].rec.previousLocationCfi = Str("epubcfi(/6/4)")
    /\ settings.styles = Obj([fontSize |-> SStr("102%"), fontFamily |-> SStr("serif")])
    /\ settings.previousLocationCfi = Str("epubcfi(/6/2)")

\* C3: defaults(target, source) leaves each property defined in target as it
\* is and sets each property undefined in target to the source's value;
\* defaults({a:1},{a:2}) is {a:1} and defaults({},{a:2}) is {a:2}
C3_DefaultsFillsOnlyUndefined ==
    call.phase = "done" =>
        /\ \A k \in PlainKeys :
               call.result[k] = IF call.target[k].t # "undefined"
                                    THEN call.target[k]
                                    ELSE call.source[k]
        /\ LET one == [t |-> "number", s |-> "1"]
               two == [t |-> "number", s |-> "2"]
           IN /\ (call.target = [NoPlain EXCEPT !.a = one]
                     /\ call.source = [NoPlain EXCEPT !.a = two]) =>
                     call.result = [NoPlain EXCEPT !.a = one]
              /\ (call.target = NoPlain
                     /\ call.source = [NoPlain EXCEPT !.a = two]) =>
                     call.result = [NoPlain EXCEPT !.a = two]

C3_Witness ==
    /\ call.phase = "done"
    /\ call.target = [a |-> [t |-> "null", s |-> ""], b |-> [t |-> "undefined", s |-> ""]]
    /\ call.source = [a |-> [t |-> "number", s |-> "2"], b |-> [t |-> "number", s |-> "1"]]
    /\ call.result = [a |-> [t |-> "null", s |-> ""], b |-> [t |-> "number", s |-> "1"]]

\* the bookKey that the options and the query pairs supply, undefined when
\* neither names one
SuppliedKey ==
    IF \E i \in 1..Len(search) : search[i][1] = "bookKey"
        THEN LET i == CHOOSE j \in 1..Len(search) :
                          /\ search[j][1] = "bookKey"
                          /\ \A l \in (j + 1)..Len(search) : search[l][1] # "bookKey"
             IN Str(decodeURIComponent(search[i][2]))
        ELSE args.options.bookKey

\* C4 (as claimed): after initialization bookKey is "epubjs-reader:" +
\* md5(bookPath) for the session's bookPath
C4_KeyIsHashOfPath ==
    status = "live" =>
        settings.bookKey = Str("epubjs-reader:" \o md5(settings.bookPath.s))

\* C4 (amended): after initialization bookKey is the key the options or a query
\* pair supplied when there is one, else "epubjs-reader:" + md5(bookPath), and
\* no later step of the session changes it
C4_KeyIsStable ==
    [][/\ status' = "live" =>
              settings'.bookKey =
                  IF SuppliedKey'.t # "undefined"
                      THEN SuppliedKey'
                      ELSE Str("epubjs-reader:" \o md5(settings'.bookPath.s))
       /\ (status = "live" /\ status' = "live") =>
              settings'.bookKey = settings.bookKey]_vars

C4_Witness ==
    /\ status = "live"
    /\ args.options.bookKey = Str(CustomKey)
    /\ settings.bookKey = Str(CustomKey)
    /\ settings.bookPath = Str("a.epub")
    /\ returned = [call |-> "saveSettings", value |-> TRUE]
    /\ items[CustomKey].kind = "json"
    /\ items["epubjs-reader:" \o md5("a.epub")] = NullItem

\* C5: a constructor that runs with restore truthy while the text stored under
\* bookKey does not parse does not throw, and leaves the settings that the
\* same construction leaves when nothing is stored under bookKey
C5_CorruptRecordIsNoRecord ==
    [][(/\ status = "closed"
        /\ status' # "closed"
        /\ Truthy(BeforeRestore.restore)
        /\ hasStorage
        /\ items[BeforeRestore.bookKey.s] = Garbage) =>
          /\ status' = "live"
          /\ settings' =
                 init(args'.bookPath, args'.options, search', hasStorage,
                      [items EXCEPT ![BeforeRestore.bookKey.s] = NullItem],
                      TRUE).settings]_vars

(***************************************************************************)
(* Properties of persist and of the position carried over an unload.       *)
(***************************************************************************)
\* the session being constructed follows an unload, with restore on, of a
\* session for the same bookPath whose rendition was at lastUnload.cfi, and
\* neither its options nor its query name previousLocationCfi
FollowsUnload ==
    /\ Constructed
    /\ lastUnload # NoUnload
    /\ settings'.bookPath.s = lastUnload.bookPath
    /\ Truthy(settings'.restore)
    /\ args'.options.previousLocationCfi.t = "undefined"
    /\ \A i \in 1..Len(search') : search'[i][1] # "previousLocationCfi"

\* C6 (as claimed): after a session with restore on is unloaded at position L,
\* a later session for the same bookPath with restore on and no
\* previousLocationCfi supplied first displays L; a session whose
\* previousLocationCfi is unset first displays the default position
C6_UnloadedPositionIsDisplayed ==
    [][/\ FollowsUnload => displayed' = lastUnload.cfi
       /\ (Constructed /\ ~Truthy(settings'.previousLocationCfi)) =>
              displayed' = DefaultPosition]_vars

\* C6 (amended): the same, for a later session that runs with the storage
\* backend available and under the bookKey of the unloaded session
C6_UnloadedPositionIsDisplayedUnderKey ==
    [][/\ (/\ FollowsUnload
           /\ hasStorage
           /\ settings'.bookKey.s = lastUnload.bookKey) =>
              /\ displayed' = lastUnload.cfi
              /\ commands' = <<[cmd |-> "display", arg |-> lastUnload.cfi]>>
       /\ (Constructed /\ ~Truthy(settings'.previousLocationCfi)) =>
              /\ displayed' = DefaultPosition
              /\ commands' = <<[cmd |-> "display", arg |-> DefaultPosition]>>]_vars

C6_Witness ==
    /\ status = "live"
    /\ location = ""
    /\ hasStorage
    /\ lastUnload = [bookPath |-> "a.epub",
                     bookKey |-> "epubjs-reader:" \o md5("a.epub"),
                     cfi |-> "epubcfi(/6/4)"]
    /\ settings.bookKey.s = lastUnload.bookKey
    /\ Truthy(settings.restore)
    /\ args.options.previousLocationCfi = Undef
    /\ search = <<>>
    /\ displayed = "epubcfi(/6/4)"
    /\ commands = <<[cmd |-> "display", arg |-> "epubcfi(/6/4)"]>>

\* C10 (as claimed): without a storage backend saveSettings() returns false,
\* writes no record and leaves the settings, previousLocationCfi included,
\* unchanged
C10_PersistWithoutBackendIsNoOp ==
    [][(returned'.call = "saveSettings" /\ ~hasStorage) =>
          /\ returned'.value = FALSE
          /\ items' = items
          /\ settings' = settings]_vars

\* C10 (amended): without a storage backend saveSettings() returns false,
\* writes no record and leaves every setting unchanged but previousLocationCfi,
\* which becomes the rendition's current position when it has one
C10_PersistWithoutBackendCapturesOnly ==
    [][(returned'.call = "saveSettings" /\ ~hasStorage) =>
          /\ returned'.value = FALSE
          /\ items' = items
          /\ \A f \in Fields \ {"previousLocationCfi"} : settings'[f] = settings[f]
          /\ settings'.previousLocationCfi =
                 IF location # "" THEN Str(location)
                 ELSE settings.previousLocationCfi]_vars

C10_Witness ==
    /\ status = "live"
    /\ ~hasStorage
    /\ returned = [call |-> "saveSettings", value |-> FALSE]
    /\ location = "epubcfi(/6/4)"
    /\ args.options.previousLocationCfi = Str("epubcfi(/6/2)")
    /\ search = <<>>
    /\ settings.previousLocationCfi = Str("epubcfi(/6/4)")
    /\ \A k \in StorageKeys : items[k].kind # "json"

(***************************************************************************)
(* Properties of the location tracker and of the input handler.            *)
(***************************************************************************)
\* C7: setLocation(cfi) pushes a history entry only if settings.history is
\* truthy and the page's fragment differs from "#" + cfi; a second call with
\* the same cfi right after pushes nothing; in every case currentLocationCfi
\* becomes cfi
C7_PushOnlyOnNewFragment ==
    [][\A cfi \in Cfis :
          Relocated(cfi) =>
              /\ pushed' \in {0, 1}
              /\ pushed' = 1 => (Truthy(settings.history) /\ hash # "#" \o cfi)
              /\ currentLocationCfi' = cfi
              /\ setLocation(settings', hash', cfi).pushed = 0
              /\ setLocation(settings', hash', cfi).current = cfi]_vars

C7_Witness ==
    /\ status = "live"
    /\ Truthy(settings.history)
    /\ pushed = 1
    /\ location = "epubcfi(/6/2)"
    /\ currentLocationCfi = "epubcfi(/6/2)"
    /\ hash = "#epubcfi(/6/2)"

\* C8: when the page is loaded with a fragment in its URL, the session asks
\* the rendition to display the position the fragment names
C8_FragmentDisplayedOnLoad ==
    [][(Constructed /\ hash' # "") =>
          \E i \in 1..Len(commands') :
              commands'[i] = [cmd |-> "display", arg |-> sliceHash(hash')]]_vars

\* C9: an ArrowLeft or ArrowRight keydown with ctrl or meta held sends no next
\* or prev to the rendition
C9_NoTurnWithModifier ==
    [][\A key \in {"ArrowLeft", "ArrowRight"} :
          KeyDown(key, TRUE) =>
              \A i \in 1..Len(commands') :
                  commands'[i].cmd \notin {"next", "prev"}]_vars

\* C17: when the session dispatches its relocated or selected signal for a
\* rendition event, setLocation has already run: the subscribers read a
\* currentLocationCfi equal to the event's position (location.start.cfi, or
\* the selected CFI range)
C17_LocationSetBeforeSignal ==
    [][/\ \A cfi \in Cfis :
              Relocated(cfi) =>
                  /\ effects' = <<[op |-> "relocated", arg |-> cfi, seen |-> cfi]>>
                  /\ currentLocationCfi' = cfi
       /\ \A cfiRange \in CfiRanges :
              Selected(cfiRange) =>
                  /\ effects' = <<[op |-> "selected", arg |-> cfiRange,
                                   seen |-> cfiRange]>>
                  /\ currentLocationCfi' = cfiRange]_vars

C17_Witness ==
    /\ status = "live"
    /\ location = "epubcfi(/6/2)"
    /\ currentLocationCfi = "epubcfi(/6/4!/4/2,/1:0,/1:5)"
    /\ effects = <<[op |-> "selected", arg |-> "epubcfi(/6/4!/4/2,/1:0,/1:5)",
                    seen |-> "epubcfi(/6/4!/4/2,/1:0,/1:5)"]>>

\* C11: with the book's direction "rtl", ArrowLeft sends next and ArrowRight
\* sends prev to the rendition; with any other direction ArrowLeft sends prev
\* and ArrowRight sends next
C11_DirectionInvertsArrows ==
    [][\A mod \in BOOLEAN :
          /\ KeyDown("ArrowLeft", mod) =>
                 commands' = <<[cmd |-> IF direction = "rtl" THEN "next" ELSE "prev",
                                arg |-> ""]>>
          /\ KeyDown("ArrowRight", mod) =>
                 commands' = <<[cmd |-> IF direction = "rtl" THEN "prev" ELSE "next",
                                arg |-> ""]>>]_vars

C11_Witness ==
    /\ status = "live"
    /\ direction = "rtl"
    /\ effects = <<[op |-> "addClass", arg |-> "prev", seen |-> ""]>>
    /\ commands = <<[cmd |-> "next", arg |-> ""]>>
    /\ timers = <<"next", "prev">>

\* C12: with the font size stored as n%, ctrl/meta + '=' makes it (n+2)%,
\* ctrl/meta + '-' makes it (n-2)% and ctrl/meta + '0' makes it 100%; the
\* value stored in settings.styles and the value sent to the rendition's
\* theme are the same
C12_FontKeysStep ==
    [][\A key \in {"=", "-", "0"} :
          KeyDown(key, TRUE) =>
              \E n \in FontSizes :
                  /\ settings.styles.o.fontSize = SStr(ToString(n) \o "%")
                  /\ LET m == CASE key = "=" -> n + 2
                                [] key = "-" -> n - 2
                                [] key = "0" -> 100
                     IN /\ settings'.styles.o.fontSize = SStr(ToString(m) \o "%")
                        /\ commands' = <<[cmd |-> "themes.fontSize",
                                          arg |-> settings'.styles.o.fontSize.s]>>
                  /\ (n = 100 /\ key = "=") => settings'.styles.o.fontSize.s = "102%"
                  /\ (n = 100 /\ key = "-") => settings'.styles.o.fontSize.s = "98%"
                  /\ key = "0" => settings'.styles.o.fontSize.s = "100%"]_vars

C12_Witness ==
    /\ status = "live"
    /\ settings.styles.o.fontSize = SStr("98%")
    /\ commands = <<[cmd |-> "themes.fontSize", arg |-> "98%"]>>

\* C15: while the timer of an arrow keypress is pending, keylock is set and
\* the control that keypress marked keeps the class 'active'
C15_LockHeldThroughCooldown ==
    (status = "live" /\ timers # <<>>) =>
        /\ keylock
        /\ \A i \in 1..Len(timers) : active[timers[i]]

\* C16: every ArrowLeft or ArrowRight keydown without a modifier sends exactly
\* one next or prev to the rendition, whether keylock is set or not
C16_ArrowAlwaysDispatches ==
    [][\A key \in {"ArrowLeft", "ArrowRight"} :
          KeyDown(key, FALSE) =>
              Cardinality({i \in 1..Len(commands') :
                              commands'[i].cmd \in {"next", "prev"}}) = 1]_vars

C16_Witness ==
    /\ status = "live"
    /\ keylock
    /\ timers = <<"next", "next">>
    /\ commands = <<[cmd |-> "next", arg |-> ""]>>

\* C18: once every pending timer of the arrow keypresses has fired, keylock is
\* false and neither content.prev nor content.next has the class 'active'
C18_IdleWhenTimersFired ==
    (status = "live" /\ timers = <<>>) => (~keylock /\ active = NoActive)

C18_Witness ==
    /\ status = "live"
    /\ timers = <<>>
    /\ effects = <<[op |-> "removeClass", arg |-> "next", seen |-> ""]>>
    /\ ~keylock
    /\ active = NoActive

\* C20: in a session whose page URL has the query pair history=false, no
\* setLocation call pushes a history entry
C20_QueryDisablesHistory ==
    [][\A cfi \in Cfis :
          (Relocated(cfi) /\ \E i \in 1..Len(search) : search[i] = <<"history", "false">>)
              => pushed' = 0]_vars

\* C13: the unload event writes the settings record under bookKey exactly
\* when restore is truthy and the storage backend is available; while restore
\* is not truthy no event of the session changes the stored items
C13_UnloadWritesIffRestore ==
    [][/\ (status = "live" /\ status' = "closed") =>
              IF Truthy(settings.restore) /\ hasStorage
                  THEN /\ items'[settings.bookKey.s].kind = "json"
                       /\ \A f \in Fields \ {"previousLocationCfi"} :
                              items'[settings.bookKey.s].rec[f] = JSONvalue(settings[f])
                       /\ items'[settings.bookKey.s].rec.previousLocationCfi =
                              IF location # "" THEN Str(location)
                              ELSE settings.previousLocationCfi
                       /\ \A k \in StorageKeys \ {settings.bookKey.s} :
                              items'[k] = items[k]
                  ELSE items' = items
       /\ (status = "live" /\ ~Truthy(settings.restore) /\ returned'.call = "") =>
              items' = items]_vars

C13_Witness ==
    /\ status = "closed"
    /\ hasStorage
    /\ lastUnload = [bookPath |-> "a.epub",
                     bookKey |-> "epubjs-reader:" \o md5("a.epub"),
                     cfi |-> "epubcfi(/6/2)"]
    /\ items[lastUnload.bookKey].kind = "json"
    /\ items[lastUnload.bookKey].rec.previousLocationCfi = Str("epubcfi(/6/2)")
    /\ items[lastUnload.bookKey].rec.restore = Bool(TRUE)

\* C14: merging the same saved record into the settings a second time, its
\* nested styles included, leaves the settings as the first merge left them
C14_MergeIdempotent ==
    [][(call.phase = "once" /\ call'.phase = "twice") =>
          /\ returned'.value = TRUE
          /\ settings' = settings]_vars

C14_Witness ==
    /\ call.phase = "twice"
    /\ returned = [call |-> "applySavedSettings", value |-> TRUE]
    /\ args.options.styles = Serif
    /\ args.options.previousLocationCfi = Undef
    /\ search = <<>>
    /\ items[settings.bookKey.s].rec.styles = Larger
    /\ settings.styles = Obj([fontSize |-> SStr("102%"), fontFamily |-> SStr("serif")])
    /\ settings.previousLocationCfi = Str("epubcfi(/6/4)")
    /\ settings.bookmarks = Arr

\* C19: once the upload path has constructed a replacement session, a
\* replaced session sends no command to its rendition on any page event and
\* writes no record: what an unload leaves in the store is what the newest
\* session alone writes
C19_OnlyNewestSessionReacts ==
    [][/\ \A i \in DOMAIN replaced' : replaced'[i].commands = <<>>
       /\ (status = "live" /\ status' = "closed") =>
              items' = unload(settings, TRUE, location, hasStorage, items).items]_vars

=============================================================================
